---- MODULE Spec2Model ----
(***************************************************************************)
(* Route-table synchronisation of pkg/compute/models (SRouteTableManager.  *)
(* SyncRouteTables and the helpers it calls), as a state machine.  Each    *)
(* process is one goroutine that calls SyncRouteTables; the local store,   *)
(* the class locks and the object locks are shared.                        *)
(***************************************************************************)
EXTENDS Integers, Sequences, FiniteSets, TLC

VARIABLES store, nextId, classLock, objLock, pc, pass, calls

vars == <<store, nextId, classLock, objLock, pc, pass, calls>>

(* ------------------------------ bounds -------------------------------- *)
MaxCalls == 2       \* calls of SyncRouteTables in one behaviour
MaxRemote == 2      \* length of the cloudRouteTables argument

Procs == {"p1", "p2"}
NoProc == "none"
NoId == 0

VpcIds == {"vpc1", "vpc2"}
Creds == {"proj1", "proj2"}             \* userCred, by its project id
ExtIds == {"B", "C"}                    \* global ids the cloud lists
Gens == {1}                             \* which snapshot of the cloud a list is

(* ------------------------- the remote objects ------------------------- *)
\* cloudprovider.ICloudRouteTable: GetGlobalId, GetName, GetType, GetIRoutes
RemoteName(id) == IF id = "C" THEN "" ELSE "rt"

CloudRouteTable(id, g) ==
    [id |-> id, name |-> RemoteName(id),
     type |-> IF g = 1 THEN "system" ELSE "custom",
     routes |-> <<id, g>>]

VpcName(vpc) == IF vpc = "vpc1" THEN "v1" ELSE ""

RECURSIVE IdLists(_)
IdLists(n) ==
    IF n = 0 THEN {<<>>}
    ELSE IdLists(n - 1) \cup
         {Append(s, id) : s \in {t \in IdLists(n - 1) : Len(t) = n - 1}, id \in ExtIds}

CloudRouteTableLists ==
    {[i \in 1..Len(ids) |-> CloudRouteTable(ids[i], g)] : ids \in IdLists(MaxRemote), g \in Gens}

(* --------------------------- the local store -------------------------- *)
\* SRouteTable rows of route_tables_tbl
Row(id, vpc, ext, type, routes, name, project) ==
    [id |-> id, vpc |-> vpc, ext |-> ext, type |-> type, routes |-> routes,
     name |-> name, project |-> project]

SeedRows ==
    {Row(1, "vpc1", "A", "custom", <<"A", 0>>, "rt", "proj1"),
     Row(2, "vpc1", "B", "custom", <<"B", 0>>, "rt-1", "proj1"),
     Row(3, "vpc2", "B", "custom", <<"B", 0>>, "rtbl", "proj2")}

\* the stores a behaviour starts from: rows left by earlier passes
InitStores == {{}, {r \in SeedRows : r.vpc = "vpc1"}, SeedRows}

RECURSIVE SeqOfRows(_)
SeqOfRows(S) ==
    IF S = {} THEN <<>>
    ELSE LET r == CHOOSE x \in S : \A y \in S : x.id <= y.id
         IN <<r>> \o SeqOfRows(S \ {r})

\* man.Query().Equals("vpc_id", vpc.Id)
QueryByVpc(st, vpc) == SeqOfRows({r \in st : r.vpc = vpc})

Range(s) == {s[k] : k \in DOMAIN s}

(* ------------------------------ the locks ----------------------------- *)
\* db.GetLockClassKey(man, userCred): a function of the manager and the
\* credential; the VPC is not among its arguments
GetLockClassKey(cred) == cred

ClassFree(p) == classLock[GetLockClassKey(pass[p].cred)] = NoProc

ObjectFree(p, id) == \A q \in Procs \ {p} : objLock[q] # id

(* ---------------------------- the comparator -------------------------- *)
HasDuplicate(keys) == \E a, b \in DOMAIN keys : a < b /\ keys[a] = keys[b]

LocalKeys(local) == [k \in DOMAIN local |-> local[k].ext]
RemoteKeys(remote) == [k \in DOMAIN remote |-> remote[k].id]

InRemote(remote, r) == r.ext \in Range(RemoteKeys(remote))
InLocal(local, e) == e.id \in Range(LocalKeys(local))

\* compare.CompareSets(dbSet, extSet, &removed, &commondb, &commonext, &added)
CompareSets(local, remote) ==
    IF HasDuplicate(LocalKeys(local)) \/ HasDuplicate(RemoteKeys(remote))
    THEN [err |-> TRUE, removed |-> <<>>, commondb |-> <<>>, commonext |-> <<>>,
          added |-> <<>>]
    ELSE LET cdb == SelectSeq(local, LAMBDA r : InRemote(remote, r))
         IN [err |-> FALSE,
             removed |-> SelectSeq(local, LAMBDA r : ~InRemote(remote, r)),
             commondb |-> cdb,
             commonext |-> [k \in DOMAIN cdb |->
                               CHOOSE e \in Range(remote) : e.id = cdb[k].ext],
             added |-> SelectSeq(remote, LAMBDA e : ~InLocal(local, e))]

(* --------------------------- name generation -------------------------- *)
routeTableBasename(name, vpcName) ==
    IF name # "" THEN name
    ELSE IF vpcName # "" THEN "rtbl-" \o vpcName
    ELSE "rtbl"

\* db.GenerateName(man, userCred, basename)
GenerateName(st, basename) ==
    LET names == {r.name : r \in st}
    IN IF basename \notin names THEN basename
       ELSE LET k == CHOOSE n \in 1..(Cardinality(names) + 1) :
                        /\ (basename \o "-" \o ToString(n)) \notin names
                        /\ \A m \in 1..(n - 1) :
                              (basename \o "-" \o ToString(m)) \in names
            IN basename \o "-" \o ToString(k)

newRouteTableFromCloud(st, id, vpc, cred, ext) ==
    Row(id, vpc, ext.id, ext.type, ext.routes,
        GenerateName(st, routeTableBasename(ext.name, VpcName(vpc))), cred)

(* ------------------------------ SyncResult ---------------------------- *)
EmptySyncResult ==
    [Add |-> 0, AddError |-> 0, Update |-> 0, UpdateError |-> 0,
     Delete |-> 0, DeleteError |-> 0, err |-> ""]

Bump(res, field) == [res EXCEPT ![field] = @ + 1]

(* --------------------------- one call's frame ------------------------- *)
NewPass(vpc, cred, cloud) ==
    [vpc |-> vpc, cred |-> cred, cloudRouteTables |-> cloud,
     dbRouteTables |-> <<>>,
     removed |-> <<>>, commondb |-> <<>>, commonext |-> <<>>, added |-> <<>>,
     i |-> 1,
     syncResult |-> EmptySyncResult,
     localRouteTables |-> <<>>, remoteRouteTables |-> <<>>,
     retLocal |-> <<>>, retRemote |-> <<>>,
     trace |-> <<>>,
     ctx |-> "live", cancelledAt |-> "",
     opslog |-> <<>>,
     routeTable |-> <<>>]

Init ==
    /\ store \in InitStores
    /\ nextId = 4
    /\ classLock = [k \in {GetLockClassKey(c) : c \in Creds} |-> NoProc]
    /\ objLock = [p \in Procs |-> NoId]
    /\ pc = [p \in Procs |-> "idle"]
    /\ pass = [p \in Procs |-> NewPass("vpc1", "proj1", <<>>)]
    /\ calls = 0

(* ------------------------------ audit log ----------------------------- *)
\* db.OpsLog.LogEvent / LogSyncUpdate: one entry for the object
OpsLogAppend(log, action, id) == Append(log, [action |-> action, id |-> id])

\* the created row is not logged
LogEvent_Dropped(log, id) == log

\* line 733: db.OpsLog.LogEvent(routeTable, db.ACT_CREATE, ...)
LogEvent(log, id) == OpsLogAppend(log, "create", id)

\* line 765: db.OpsLog.LogSyncUpdate(self, diff, userCred)
LogSyncUpdate(log, id) == OpsLogAppend(log, "update", id)

\* RealDelete, line 499: the entry written by SVirtualResourceBase.Delete
LogDelete(log, id) == OpsLogAppend(log, "delete", id)

(* ------------------------------- actions ------------------------------ *)
\* a caller invokes SyncRouteTables(ctx, userCred, vpc, cloudRouteTables)
Call(p) ==
    /\ pc[p] \in {"idle", "done"}
    /\ p = "p2" => pc["p1"] # "idle"      \* the goroutines are interchangeable
    /\ calls < MaxCalls
    /\ \E vpc \in VpcIds, cred \in Creds, cloud \in CloudRouteTableLists :
          pass' = [pass EXCEPT ![p] = NewPass(vpc, cred, cloud)]
    /\ pc' = [pc EXCEPT ![p] = "lock"]
    /\ calls' = calls + 1
    /\ UNCHANGED <<store, nextId, classLock, objLock>>

\* lockman.LockClass blocks until the class key is free
LockClass(p) ==
    /\ pc[p] = "lock"
    /\ ClassFree(p)
    /\ classLock' = [classLock EXCEPT ![GetLockClassKey(pass[p].cred)] = p]
    /\ pc' = [pc EXCEPT ![p] = "fetch"]
    /\ UNCHANGED <<store, nextId, objLock, pass, calls>>

\* the deferred lockman.ReleaseClass
ReleaseClass(p) == [classLock EXCEPT ![GetLockClassKey(pass[p].cred)] = NoProc]

\* the early return leaves the class locked
AbortPass_NoRelease(p, why) ==
    /\ pass' = [pass EXCEPT ![p].syncResult.err = why,
                            ![p].retLocal = <<>>, ![p].retRemote = <<>>]
    /\ pc' = [pc EXCEPT ![p] = "done"]
    /\ UNCHANGED <<store, nextId, classLock, objLock, calls>>

\* return nil, nil, syncResult after syncResult.Error(err)
AbortPass(p, why) ==
    /\ pass' = [pass EXCEPT ![p].syncResult.err = why,
                            ![p].retLocal = <<>>, ![p].retRemote = <<>>]
    /\ classLock' = ReleaseClass(p)
    /\ pc' = [pc EXCEPT ![p] = "done"]
    /\ UNCHANGED <<store, nextId, objLock, calls>>

\* the loops run in the opposite order
Stages_InsertFirst == <<"insert", "update", "remove", "return">>

\* the three loops of lines 641-672, in the order the code runs them
Stages == <<"remove", "update", "insert", "return">>

ItemsOf(f, stage) ==
    IF stage = "remove" THEN f.removed
    ELSE IF stage = "update" THEN f.commondb
    ELSE IF stage = "insert" THEN f.added
    ELSE <<>>

\* the first stage from the k-th on that has an item to process
FromStage(f, k) ==
    CHOOSE j \in k..Len(Stages) :
        /\ j = Len(Stages) \/ ItemsOf(f, Stages[j]) # <<>>
        /\ \A m \in k..(j - 1) : ItemsOf(f, Stages[m]) = <<>>

StageIndex(stage) == CHOOSE k \in DOMAIN Stages : Stages[k] = stage

\* where a loop stands once its body has run on item f.i
AfterItem(f, stage) ==
    IF f.i + 1 <= Len(ItemsOf(f, stage))
    THEN [pc |-> stage, i |-> f.i + 1]
    ELSE [pc |-> Stages[FromStage(f, StageIndex(stage) + 1)], i |-> 1]

\* a successful comparison, stored in the frame
Compared(p, db, r) ==
    LET f == [pass[p] EXCEPT !.dbRouteTables = db,
                             !.removed = r.removed,
                             !.commondb = r.commondb,
                             !.commonext = r.commonext,
                             !.added = r.added,
                             !.i = 1]
    IN /\ pass' = [pass EXCEPT ![p] = f]
       /\ pc' = [pc EXCEPT ![p] = Stages[FromStage(f, 1)]]
       /\ UNCHANGED classLock

\* the rows are compared with remoteRouteTables, the empty list of line 624
CompareStep_StaleRemote(p, db) ==
    Compared(p, db, CompareSets(db, pass[p].remoteRouteTables))

\* the error of CompareSets is dropped and the loops run
CompareStep_IgnoreError(p, db) ==
    Compared(p, db, CompareSets(db, pass[p].cloudRouteTables))

\* lines 632-639: the comparison of the fetched rows with the cloud's list
CompareStep(p, db) ==
    LET r == CompareSets(db, pass[p].cloudRouteTables)
    IN IF r.err
       THEN /\ pass' = [pass EXCEPT ![p].dbRouteTables = db,
                                    ![p].syncResult.err = "compare",
                                    ![p].retLocal = <<>>, ![p].retRemote = <<>>]
            /\ classLock' = ReleaseClass(p)
            /\ pc' = [pc EXCEPT ![p] = "done"]
       ELSE Compared(p, db, r)

\* the fetch gives up when the context is already cancelled
FetchModelObjects_HonourCancel(p) ==
    /\ pc[p] = "fetch"
    /\ IF pass[p].ctx = "cancelled"
       THEN AbortPass(p, "cancelled")
       ELSE /\ CompareStep(p, QueryByVpc(store, pass[p].vpc))
            /\ UNCHANGED <<store, nextId, objLock, calls>>

\* db.FetchModelObjects succeeds; CompareSets runs on what it returned
FetchModelObjects(p) ==
    /\ pc[p] = "fetch"
    /\ CompareStep(p, QueryByVpc(store, pass[p].vpc))
    /\ UNCHANGED <<store, nextId, objLock, calls>>

\* db.FetchModelObjects fails
FetchModelObjectsError(p) ==
    /\ pc[p] = "fetch"
    /\ AbortPass(p, "fetch")

(* the loop over removed, lines 641-648 *)
\* syncRemoveCloudRouteTable: lockman.LockObject(ctx, self)
LockObject(p) ==
    /\ pc[p] = "remove"
    /\ pass[p].i <= Len(pass[p].removed)
    /\ ObjectFree(p, pass[p].removed[pass[p].i].id)
    /\ objLock' = [objLock EXCEPT ![p] = pass[p].removed[pass[p].i].id]
    /\ pc' = [pc EXCEPT ![p] = "removing"]
    /\ UNCHANGED <<store, nextId, classLock, pass, calls>>

\* the rest of syncRemoveCloudRouteTable and the bookkeeping of the loop body
RemoveResult(p, deleted) ==
    /\ pass' = [pass EXCEPT
                  ![p].syncResult = Bump(@, IF deleted THEN "Delete" ELSE "DeleteError"),
                  ![p].trace = Append(@, "delete"),
                  ![p].opslog = IF deleted THEN LogDelete(@, objLock[p]) ELSE @,
                  ![p].i = AfterItem(pass[p], "remove").i]
    /\ objLock' = [objLock EXCEPT ![p] = NoId]
    /\ pc' = [pc EXCEPT ![p] = AfterItem(pass[p], "remove").pc]

\* ValidateDeleteCondition and RealDelete both succeed
SyncRemoveCloudRouteTable(p) ==
    /\ pc[p] = "removing"
    /\ store' = {r \in store : r.id # objLock[p]}
    /\ RemoveResult(p, TRUE)
    /\ UNCHANGED <<nextId, classLock, calls>>

\* a failed removal ends the pass
SyncRemoveCloudRouteTableError_Abort(p) ==
    /\ pc[p] = "removing"
    /\ pass' = [pass EXCEPT ![p].syncResult = Bump(@, "DeleteError"),
                            ![p].trace = Append(@, "delete"),
                            ![p].i = 1]
    /\ objLock' = [objLock EXCEPT ![p] = NoId]
    /\ pc' = [pc EXCEPT ![p] = "return"]
    /\ UNCHANGED <<store, nextId, classLock, calls>>

\* the row is deleted although the validation failed
SyncRemoveCloudRouteTableError_Deletes(p) ==
    /\ pc[p] = "removing"
    /\ store' = {r \in store : r.id # objLock[p]}
    /\ RemoveResult(p, FALSE)
    /\ UNCHANGED <<nextId, classLock, calls>>

\* ValidateDeleteCondition or RealDelete returns an error
SyncRemoveCloudRouteTableError(p) ==
    /\ pc[p] = "removing"
    /\ RemoveResult(p, FALSE)
    /\ UNCHANGED <<store, nextId, classLock, calls>>

(* the loop over commondb, lines 650-660 *)
\* the common rows are matched with the remote list back to front
UpdateSource_Reversed(p, i) == pass[p].commonext[Len(pass[p].commonext) + 1 - i]

\* which remote object the i-th common row is updated from
UpdateSource(p, i) == pass[p].commonext[i]

\* SyncWithCloudRouteTable succeeds: db.UpdateWithLock writes VpcId, Type, Routes
SyncWithCloudRouteTable(p) ==
    /\ pc[p] = "update"
    /\ pass[p].i <= Len(pass[p].commondb)
    /\ LET i == pass[p].i
           self == pass[p].commondb[i]
           ext == UpdateSource(p, i)
           new == newRouteTableFromCloud(store, self.id, pass[p].vpc, pass[p].cred, ext)
           upd == [self EXCEPT !.vpc = pass[p].vpc, !.type = new.type,
                               !.routes = new.routes]
       IN /\ ObjectFree(p, self.id)
          /\ store' = {IF r.id = self.id
                       THEN [r EXCEPT !.vpc = pass[p].vpc, !.type = new.type,
                                      !.routes = new.routes]
                       ELSE r : r \in store}
          /\ pass' = [pass EXCEPT
                        ![p].commondb[i] = upd,
                        ![p].localRouteTables = Append(@, upd),
                        ![p].remoteRouteTables = Append(@, pass[p].commonext[i]),
                        ![p].syncResult = Bump(@, "Update"),
                        ![p].trace = Append(@, "update"),
                        ![p].opslog = LogSyncUpdate(@, self.id),
                        ![p].i = AfterItem(pass[p], "update").i]
    /\ pc' = [pc EXCEPT ![p] = AfterItem(pass[p], "update").pc]
    /\ UNCHANGED <<nextId, classLock, objLock, calls>>

\* newRouteTableFromCloud or db.UpdateWithLock returns an error
SyncWithCloudRouteTableError(p) ==
    /\ pc[p] = "update"
    /\ pass[p].i <= Len(pass[p].commondb)
    /\ pass' = [pass EXCEPT ![p].syncResult = Bump(@, "UpdateError"),
                            ![p].trace = Append(@, "update"),
                            ![p].i = AfterItem(pass[p], "update").i]
    /\ pc' = [pc EXCEPT ![p] = AfterItem(pass[p], "update").pc]
    /\ UNCHANGED <<store, nextId, classLock, objLock, calls>>

(* the loop over added, lines 662-672 *)
\* insertFromCloud, lines 726-729: newRouteTableFromCloud builds the row and
\* generates its name from the names stored at that moment
NewRouteTableFromCloud(p) ==
    /\ pc[p] = "insert"
    /\ pass[p].i <= Len(pass[p].added)
    /\ pass' = [pass EXCEPT ![p].routeTable =
                   newRouteTableFromCloud(store, NoId, pass[p].vpc, pass[p].cred,
                                          pass[p].added[pass[p].i])]
    /\ pc' = [pc EXCEPT ![p] = "inserting"]
    /\ UNCHANGED <<store, nextId, classLock, objLock, calls>>

\* insertFromCloud, lines 730-734: TableSpec().Insert succeeds
InsertFromCloud(p) ==
    /\ pc[p] = "inserting"
    /\ LET ext == pass[p].added[pass[p].i]
           new == [pass[p].routeTable EXCEPT !.id = nextId]
       IN /\ store' = store \cup {new}
          /\ pass' = [pass EXCEPT
                        ![p].localRouteTables = Append(@, new),
                        ![p].remoteRouteTables = Append(@, ext),
                        ![p].syncResult = Bump(@, "Add"),
                        ![p].trace = Append(@, "insert"),
                        ![p].opslog = LogEvent(@, new.id),
                        ![p].routeTable = <<>>,
                        ![p].i = AfterItem(pass[p], "insert").i]
    /\ pc' = [pc EXCEPT ![p] = AfterItem(pass[p], "insert").pc]
    /\ nextId' = nextId + 1
    /\ UNCHANGED <<classLock, objLock, calls>>

\* a failed insertion returns the error at once
InsertFromCloudError_Abort(p) ==
    /\ pc[p] \in {"insert", "inserting"}
    /\ pass[p].i <= Len(pass[p].added)
    /\ pass' = [pass EXCEPT ![p].syncResult.err = "insert",
                            ![p].trace = Append(@, "insert"),
                            ![p].routeTable = <<>>,
                            ![p].retLocal = <<>>, ![p].retRemote = <<>>]
    /\ classLock' = ReleaseClass(p)
    /\ pc' = [pc EXCEPT ![p] = "done"]
    /\ UNCHANGED <<store, nextId, objLock, calls>>

\* newRouteTableFromCloud or TableSpec().Insert returns an error
InsertFromCloudError(p) ==
    /\ pc[p] \in {"insert", "inserting"}
    /\ pass[p].i <= Len(pass[p].added)
    /\ pass' = [pass EXCEPT ![p].syncResult = Bump(@, "AddError"),
                            ![p].trace = Append(@, "insert"),
                            ![p].routeTable = <<>>,
                            ![p].i = AfterItem(pass[p], "insert").i]
    /\ pc' = [pc EXCEPT ![p] = AfterItem(pass[p], "insert").pc]
    /\ UNCHANGED <<store, nextId, classLock, objLock, calls>>

\* line 673 and the deferred ReleaseClass
Return(p) ==
    /\ pc[p] = "return"
    /\ pass' = [pass EXCEPT ![p].retLocal = pass[p].localRouteTables,
                            ![p].retRemote = pass[p].remoteRouteTables]
    /\ classLock' = ReleaseClass(p)
    /\ pc' = [pc EXCEPT ![p] = "done"]
    /\ UNCHANGED <<store, nextId, objLock, calls>>

Next == \E p \in Procs :
    \/ Call(p)
    \/ LockClass(p)
    \/ FetchModelObjects(p)
    \/ FetchModelObjectsError(p)
    \/ LockObject(p)
    \/ SyncRemoveCloudRouteTable(p)
    \/ SyncRemoveCloudRouteTableError(p)
    \/ SyncWithCloudRouteTable(p)
    \/ SyncWithCloudRouteTableError(p)
    \/ NewRouteTableFromCloud(p)
    \/ InsertFromCloud(p)
    \/ InsertFromCloudError(p)
    \/ Return(p)

Spec == Init /\ [][Next]_vars

(* ------------------- one pass and a cancelling caller ------------------ *)
\* the caller cancels the context it passed to SyncRouteTables
Cancel(p) ==
    /\ pc[p] \notin {"idle", "done"}
    /\ pass[p].ctx = "live"
    /\ pass' = [pass EXCEPT ![p].ctx = "cancelled", ![p].cancelledAt = pc[p]]
    /\ UNCHANGED <<store, nextId, classLock, objLock, pc, calls>>

NextCtx == \E p \in {"p1"} :
    \/ Call(p)
    \/ Cancel(p)
    \/ LockClass(p)
    \/ FetchModelObjects(p)
    \/ FetchModelObjectsError(p)
    \/ LockObject(p)
    \/ SyncRemoveCloudRouteTable(p)
    \/ SyncRemoveCloudRouteTableError(p)
    \/ SyncWithCloudRouteTable(p)
    \/ SyncWithCloudRouteTableError(p)
    \/ NewRouteTableFromCloud(p)
    \/ InsertFromCloud(p)
    \/ InsertFromCloudError(p)
    \/ Return(p)

SpecCtx == Init /\ [][NextCtx]_vars

(* ====================== properties of the sync pass ==================== *)
Frame(p) == pass[p]

\* the class lock is held: between LockClass and the deferred ReleaseClass
Holding(p) ==
    pc[p] \in {"fetch", "remove", "removing", "update", "insert", "inserting", "return"}

\* CompareSets has returned without error
PastCompare(p) ==
    \/ pc[p] \in {"remove", "removing", "update", "insert", "inserting", "return"}
    \/ pc[p] = "done" /\ Frame(p).syncResult.err = ""

Finished(p) == pc[p] = "done" /\ Frame(p).syncResult.err = ""
Aborted(p) == pc[p] = "done" /\ Frame(p).syncResult.err # ""

CountId(s, id) == Cardinality({k \in DOMAIN s : s[k].id = id})
PosOfId(s, id) == CHOOSE k \in DOMAIN s : s[k].id = id

\* C1: after a comparison of lists with unique keys every fetched row is in
\* exactly one of removed and commondb and every cloud object in exactly one
\* of commonext and added, so the lengths add up on both sides.
C1_PartitionComplete ==
    \A p \in Procs : PastCompare(p) =>
        LET f == Frame(p) IN
        /\ Len(f.removed) + Len(f.commondb) = Len(f.dbRouteTables)
        /\ Len(f.commonext) + Len(f.added) = Len(f.cloudRouteTables)
        /\ \A k \in DOMAIN f.dbRouteTables :
              CountId(f.removed, f.dbRouteTables[k].id)
              + CountId(f.commondb, f.dbRouteTables[k].id) = 1
        /\ \A k \in DOMAIN f.cloudRouteTables :
              CountId(f.commonext, f.cloudRouteTables[k].id)
              + CountId(f.added, f.cloudRouteTables[k].id) = 1

C1_Witness ==
    \E p \in Procs :
        /\ PastCompare(p)
        /\ Frame(p).removed # <<>>
        /\ Frame(p).commondb # <<>>
        /\ Frame(p).added # <<>>

\* C2: commondb and commonext have the same length, share the key index by
\* index and follow the order of the fetched rows; every row the pass has
\* updated or inserted carries the type and routes of the remote object
\* recorded next to it.
C2_Pairing ==
    \A p \in Procs : PastCompare(p) =>
        LET f == Frame(p) IN
        /\ Len(f.commondb) = Len(f.commonext)
        /\ \A k \in DOMAIN f.commondb : f.commondb[k].ext = f.commonext[k].id
        /\ \A a, b \in DOMAIN f.commondb :
              a < b => PosOfId(f.dbRouteTables, f.commondb[a].id)
                       < PosOfId(f.dbRouteTables, f.commondb[b].id)
        /\ Len(f.localRouteTables) = Len(f.remoteRouteTables)
        /\ \A k \in DOMAIN f.localRouteTables :
              /\ f.localRouteTables[k].ext = f.remoteRouteTables[k].id
              /\ f.localRouteTables[k].routes = f.remoteRouteTables[k].routes
              /\ f.localRouteTables[k].type = f.remoteRouteTables[k].type

C2_Witness ==
    \E p \in Procs :
        /\ Finished(p)
        /\ Len(Frame(p).commondb) = 2
        /\ Frame(p).syncResult.Update = 2
        /\ Frame(p).cloudRouteTables[1].id = Frame(p).commondb[2].ext

\* the pass has reached the call of CompareSets
CompareSetsCalled(p) ==
    pc[p] \notin {"lock", "fetch"} /\ Frame(p).syncResult.err # "fetch"

\* C3: a duplicate key on either side makes the comparison fail; the pass
\* returns the error and has deleted, updated and inserted nothing.
C3_AmbiguousKeyAborts ==
    \A p \in Procs :
        ( /\ CompareSetsCalled(p)
          /\ \/ HasDuplicate(LocalKeys(Frame(p).dbRouteTables))
             \/ HasDuplicate(RemoteKeys(Frame(p).cloudRouteTables)) )
        => /\ pc[p] = "done"
           /\ Frame(p).syncResult = [EmptySyncResult EXCEPT !.err = "compare"]
           /\ Frame(p).trace = <<>>
           /\ Frame(p).retLocal = <<>> /\ Frame(p).retRemote = <<>>

C3_Witness ==
    \E p \in Procs :
        /\ Aborted(p)
        /\ Frame(p).syncResult.err = "compare"
        /\ Frame(p).dbRouteTables # <<>>
        /\ HasDuplicate(RemoteKeys(Frame(p).cloudRouteTables))

StageRank(op) == IF op = "delete" THEN 1 ELSE IF op = "update" THEN 2 ELSE 3

\* C4: in the steps of one pass no update or insertion comes before a
\* deletion and no insertion before an update.
C4_DeleteUpdateInsertOrder ==
    \A p \in Procs :
        \A a, b \in DOMAIN Frame(p).trace :
            a < b => StageRank(Frame(p).trace[a]) <= StageRank(Frame(p).trace[b])

C4_Witness ==
    \E p \in Procs :
        /\ Finished(p)
        /\ Frame(p).trace = <<"delete", "update", "insert">>

CountOp(t, op) == Cardinality({k \in DOMAIN t : t[k] = op})

\* C5: a pass that entered its loops attempts every item of removed, common
\* and added once, whatever the outcome of the others, and the counters of
\* its result add up to the lengths of the three lists.
C5_PartialFailureIsolation ==
    \A p \in Procs :
        /\ PastCompare(p) =>
              LET f == Frame(p) IN
              /\ f.syncResult.err = ""
              /\ f.syncResult.Delete + f.syncResult.DeleteError = CountOp(f.trace, "delete")
              /\ f.syncResult.Update + f.syncResult.UpdateError = CountOp(f.trace, "update")
              /\ f.syncResult.Add + f.syncResult.AddError = CountOp(f.trace, "insert")
        /\ Finished(p) =>
              LET f == Frame(p) IN
              /\ f.syncResult.Delete + f.syncResult.DeleteError = Len(f.removed)
              /\ f.syncResult.Update + f.syncResult.UpdateError = Len(f.commondb)
              /\ f.syncResult.Add + f.syncResult.AddError = Len(f.added)

C5_Witness ==
    \E p \in Procs :
        /\ Finished(p)
        /\ Frame(p).syncResult.Delete = 1
        /\ Frame(p).syncResult.DeleteError = 1
        /\ Frame(p).syncResult.Add = 1

\* C6: a pass that has returned, normally or with an error, holds no class
\* lock, and outside syncRemoveCloudRouteTable it holds no object lock.
C6_LocksReleased ==
    \A p \in Procs :
        /\ ~Holding(p) => \A k \in DOMAIN classLock : classLock[k] # p
        /\ pc[p] # "removing" => objLock[p] = NoId

C6_Witness ==
    \E p, q \in Procs :
        /\ Aborted(p) /\ Frame(p).syncResult.err = "fetch"
        /\ Finished(q) /\ Frame(q).syncResult.DeleteError = 1

\* C7: two passes for the same VPC never hold their locks at the same time.
C7_MutualExclusionPerVpc ==
    \A p, q \in Procs :
        (p # q /\ Holding(p) /\ Holding(q)) => Frame(p).vpc # Frame(q).vpc

\* C8: a pass never waits for the lock held by a pass for another VPC.
C8_NoWaitAcrossVpcs ==
    \A p, q \in Procs :
        (pc[p] = "lock" /\ Holding(q) /\ Frame(p).vpc # Frame(q).vpc) => ClassFree(p)

NoItemError(f) ==
    f.syncResult.DeleteError = 0 /\ f.syncResult.UpdateError = 0
    /\ f.syncResult.AddError = 0

ExternalIdsOf(st, vpc) == {r.ext : r \in {x \in st : x.vpc = vpc}}

\* C9: when a pass without item errors returns, the external ids of the
\* rows of its VPC are the global ids of the cloud's list.
C9_Convergence ==
    [][\A p \in Procs :
          (pc[p] = "return" /\ pc'[p] = "done" /\ NoItemError(Frame(p)))
          => ExternalIdsOf(store', Frame(p).vpc)
             = Range(RemoteKeys(Frame(p).cloudRouteTables))]_vars

\* C10 as stated: a pass aborts only when the initial fetch or the lock
\* acquisition fails, and then it has changed nothing and returns the error
\* with empty lists.
C10_AbortOnlyOnFetchOrLock ==
    \A p \in Procs : Aborted(p) =>
        /\ Frame(p).syncResult.err \in {"fetch", "lock"}
        /\ Frame(p).trace = <<>>
        /\ Frame(p).retLocal = <<>> /\ Frame(p).retRemote = <<>>

\* C10: a pass aborts only when the query of the local rows or the
\* comparison fails, never on an item's error; an aborted pass has deleted,
\* updated and inserted nothing and returns the error with empty lists.
C10_AbortOnlyOnPassLevelFailure ==
    \A p \in Procs :
        /\ Aborted(p) =>
              /\ Frame(p).syncResult.err \in {"fetch", "compare"}
              /\ Frame(p).trace = <<>>
              /\ Frame(p).syncResult = [EmptySyncResult EXCEPT !.err = Frame(p).syncResult.err]
              /\ Frame(p).retLocal = <<>> /\ Frame(p).retRemote = <<>>
        /\ (pc[p] = "done" /\ ~NoItemError(Frame(p))) => Finished(p)

C10_Witness ==
    \E p, q \in Procs :
        /\ Aborted(p) /\ Frame(p).syncResult.err = "compare"
        /\ Finished(q) /\ Frame(q).syncResult.AddError = 1

(* ============================ cancellation ============================= *)
ItemCount(f) == Len(f.removed) + Len(f.commondb) + Len(f.added)

Attempts(res) ==
    res.Add + res.AddError + res.Update + res.UpdateError
    + res.Delete + res.DeleteError

RECURSIVE CountAction(_, _)
CountAction(log, action) ==
    IF log = <<>> THEN 0
    ELSE (IF Head(log).action = action THEN 1 ELSE 0)
         + CountAction(Tail(log), action)

C13_FailedDeleteKeepsRow ==
    [][\A p \in Procs :
        /\ (pc[p] = "removing"
            /\ pass'[p].syncResult.DeleteError > pass[p].syncResult.DeleteError)
           => /\ store' = store
              /\ pass'[p].syncResult.err = ""
              /\ pass'[p].syncResult.Delete = pass[p].syncResult.Delete
              /\ IF pass[p].i < Len(pass[p].removed)
                 THEN pc'[p] = "remove" /\ pass'[p].i = pass[p].i + 1
                 ELSE pc'[p] \in {"update", "insert", "return"}
        /\ (pc[p] = "removing" /\ pc'[p] # "removing"
            /\ \E r \in store : r.id = objLock[p] /\ r \notin store')
           => pass'[p].syncResult.Delete = pass[p].syncResult.Delete + 1]_vars

C13_Witness ==
    \E p \in Procs :
        /\ Frame(p).syncResult.DeleteError = 1
        /\ Len(Frame(p).trace) >= 2
        /\ Frame(p).trace[1] = "delete"
        /\ Frame(p).syncResult.Delete = 0
        /\ Frame(p).removed[1] \in store
        /\ Frame(p).syncResult.err = ""

(* ====================================================================== *)
(* Sharing of a resource: pkg/cloudcommon/db/sharablebase.go.  Here store *)
(* holds the row of one sharable model and its shared-resource records,   *)
(* pass the input and the error of each caller's last request.            *)
(* ====================================================================== *)
MaxShareCalls == 2

Callers == {"api"}
Projects == {"proj1", "proj2"}
Domains == {"dom1", "dom2"}
ResId == "res"

\* rbacutils.TRbacScope, lowest first
Scopes == <<"none", "user", "project", "domain", "system">>
ScopeRank(scope) == CHOOSE k \in DOMAIN Scopes : Scopes[k] = scope
HigherThan(a, b) == ScopeRank(a) > ScopeRank(b)

\* rbacutils.String2ScopeDefault(input.Scope, ScopeSystem)
String2ScopeDefault(str, dflt) ==
    IF \E k \in DOMAIN Scopes : Scopes[k] = str THEN str ELSE dflt

\* the target lists of apis.PerformPublicProjectInput, by their members
TargetLists(ids) == {{}} \cup {{i} : i \in ids} \cup {ids}

PerformPublicProjectInputs ==
    [scope : {"", "project", "domain", "system"},
     shared_projects : TargetLists(Projects),
     shared_domains : TargetLists(Domains)]

\* SSharableBaseResource with what its model answers about itself
SharableModel(resourceScope, candidateIds, requireIds) ==
    [kind |-> "model", id |-> ResId,
     is_public |-> FALSE, public_scope |-> "system", public_src |-> "",
     resourceScope |-> resourceScope,
     candidateIds |-> candidateIds, requireIds |-> requireIds]

\* a row of SharedResourceManager
SharedResource(id, targetType, target) ==
    [kind |-> "shared", resource_id |-> id, target_type |-> targetType,
     target_project_id |-> target]

ModelOf(st) == CHOOSE r \in st : r.kind = "model"
SharedOf(st) == {r \in st : r.kind = "shared"}

\* SharableGetSharedProjects(model, targetType)
SharableGetSharedProjects(st, targetType) ==
    {r.target_project_id :
        r \in {x \in SharedOf(st) : x.target_type = targetType}}

\* SharedResourceManager.shareToTarget: the records of the target type
\* become the given targets
shareToTarget(st, targetType, targets) ==
    {r \in st : ~(r.kind = "shared" /\ r.target_type = targetType)}
    \cup {SharedResource(ResId, targetType, t) : t \in targets}

\* is_public is left as it was
SetShare_ScopeOnly(m, scope) ==
    [m EXCEPT !.public_scope = scope,
              !.public_src = "local"]

\* SetShare, lines 362-370
SetShare(m, scope) ==
    [m EXCEPT !.is_public = (scope # "none"),
              !.public_scope = scope,
              !.public_src = "local"]

\* db.Update(model, func() { model.SetShare(targetScope) })
UpdateShare(st, scope) ==
    (st \ {ModelOf(st)}) \cup {SetShare(ModelOf(st), scope)}

Failures == {"none", "shareToTarget", "shareToTarget2", "Update"}

\* policy.PolicyManager.AllowScope(userCred, ..., "public")
AllowScopes == {"project", "domain", "system"}

Ret(e, st) == [err |-> e, store |-> st]

\* lines 397-443: the switch over targetScope; scope is targetScope after it
ShareTargets(st, input, targetScope, fail) ==
    LET m == ModelOf(st)
        cleaned == shareToTarget(st, "project", {})
    IN CASE targetScope = "project" ->
              IF m.requireIds = {} \/ Cardinality(m.requireIds) > 1
              THEN [err |-> "ErrForbidden", store |-> st, scope |-> targetScope]
              ELSE IF fail = "shareToTarget"
              THEN [err |-> "shareToTarget", store |-> st, scope |-> targetScope]
              ELSE [err |-> "",
                    store |-> shareToTarget(st, "project", input.shared_projects),
                    scope |-> IF input.shared_projects = {}
                              THEN "none" ELSE targetScope]
         [] targetScope = "domain" ->
              IF m.requireIds = {}
              THEN [err |-> "ErrForbidden", store |-> st, scope |-> targetScope]
              ELSE IF fail = "shareToTarget"
              THEN [err |-> "shareToTarget", store |-> st, scope |-> targetScope]
              ELSE IF fail = "shareToTarget2"
              THEN [err |-> "shareToTarget", store |-> cleaned, scope |-> targetScope]
              ELSE [err |-> "",
                    store |-> shareToTarget(cleaned, "domain", input.shared_domains),
                    scope |-> IF input.shared_domains = {}
                                 /\ m.resourceScope = "domain"
                              THEN "none" ELSE targetScope]
         [] targetScope = "system" ->
              IF m.candidateIds # {}
              THEN [err |-> "ErrForbidden", store |-> st, scope |-> targetScope]
              ELSE IF fail = "shareToTarget"
              THEN [err |-> "shareToTarget", store |-> st, scope |-> targetScope]
              ELSE IF fail = "shareToTarget2"
              THEN [err |-> "shareToTarget", store |-> cleaned, scope |-> targetScope]
              ELSE [err |-> "",
                    store |-> shareToTarget(cleaned, "domain", {}),
                    scope |-> targetScope]
         [] OTHER -> [err |-> "", store |-> st, scope |-> targetScope]

\* lines 445-463: the policy check, the update and the return
PublishAt(sw, allow, fail) ==
    IF sw.err # "" THEN Ret(sw.err, sw.store)
    ELSE IF HigherThan(sw.scope, allow)
    THEN Ret("ErrNotSufficientPrivilege", sw.store)
    ELSE IF fail = "Update" THEN Ret("Update", sw.store)
    ELSE Ret("", UpdateShare(sw.store, sw.scope))

\* lines 388-395: the target scope that the two lists of the input force
TargetScopeOf(input, scope) ==
    IF input.shared_projects # {} THEN "project"
    ELSE IF input.shared_domains # {} THEN "domain"
    ELSE scope

\* an input with both lists is taken as one with shared_projects only
PerformPublic_BothAllowed(st, input, allow, fail) ==
    LET scope == String2ScopeDefault(input.scope, "system")
    IN IF HigherThan(ModelOf(st).resourceScope, scope)
       THEN Ret("ErrNotSupported", st)
       ELSE PublishAt(ShareTargets(st, input, TargetScopeOf(input, scope), fail),
                      allow, fail)

\* SharablePerformPublic, lines 380-464: the error it returns and the rows
\* it leaves
PerformPublic(st, input, allow, fail) ==
    LET scope == String2ScopeDefault(input.scope, "system")
    IN IF HigherThan(ModelOf(st).resourceScope, scope)
       THEN Ret("ErrNotSupported", st)
       ELSE IF input.shared_projects # {} /\ input.shared_domains # {}
       THEN Ret("ErrInputParameter", st)
       ELSE PublishAt(ShareTargets(st, input, TargetScopeOf(input, scope), fail),
                      allow, fail)

NoInput == [scope |-> "", shared_projects |-> {}, shared_domains |-> {}]

\* what is kept of a request: the handler, its input, its error and the
\* rows it found
ShareRequest(op, input, err, before) ==
    [op |-> op, input |-> input, err |-> err, before |-> before]

\* a model that is being created: the columns have their defaults
InitShare ==
    /\ store \in {{SharableModel(rs, cand, req)} :
                     rs \in {"project", "domain"},
                     cand \in {{}, {"dom1"}},
                     req \in {{}, {"dom1"}, Domains}}
    /\ nextId = 0
    /\ classLock = <<>>
    /\ objLock = <<>>
    /\ pc = [c \in Callers |-> "new"]
    /\ pass = [c \in Callers |-> ShareRequest("", NoInput, "", {})]
    /\ calls = 0

\* SharableManagerValidateCreateData, lines 148-195, for a public_scope that
\* is not empty: the error, or is_public and public_scope as they are stored
ValidateCreateData(resScope, publicScope, isPublic, allow) ==
    LET toSystem == publicScope = "system"
        toDomain == resScope = "project" /\ publicScope = "domain"
        reqScope == IF toSystem THEN "system"
                    ELSE IF toDomain THEN "domain" ELSE resScope
    IN IF resScope \notin {"project", "domain"}
       THEN [err |-> "ErrInputParameter", is_public |-> FALSE, public_scope |-> ""]
       ELSE IF ~(toSystem \/ toDomain) /\ isPublic = "true"
       THEN [err |-> "ErrNotSupported", is_public |-> FALSE, public_scope |-> ""]
       ELSE IF HigherThan(reqScope, allow)
       THEN [err |-> "ErrNotSufficientPrivilege", is_public |-> FALSE,
             public_scope |-> ""]
       ELSE IF toSystem \/ toDomain
       THEN [err |-> "", is_public |-> TRUE, public_scope |-> publicScope]
       ELSE [err |-> "", is_public |-> FALSE, public_scope |-> "none"]

\* SharableModelCustomizeCreate, lines 540-558; data is <<>> when the
\* request names no public_scope, else the validated columns
CustomizeCreate(m, data, autoShare) ==
    IF data = <<>>
    THEN IF m.resourceScope = "domain" /\ autoShare
         THEN SetShare(m, "system")
         ELSE SetShare(m, "none")
    ELSE [m EXCEPT !.is_public = data.is_public,
                   !.public_scope = data.public_scope]

\* the creation of the model: ValidateCreateData, then CustomizeCreate
SharableModelCustomizeCreate(c) ==
    /\ pc[c] = "new"
    /\ \E publicScope \in {"", "none", "project", "domain", "system"},
          isPublic \in {"nil", "true", "false"},
          allow \in AllowScopes, autoShare \in BOOLEAN :
          LET m == ModelOf(store)
              v == ValidateCreateData(m.resourceScope, publicScope, isPublic, allow)
          IN /\ publicScope # "" => v.err = ""
             /\ store' = {CustomizeCreate(m, IF publicScope = "" THEN <<>> ELSE v,
                                          autoShare)}
    /\ pc' = [pc EXCEPT ![c] = "created"]
    /\ UNCHANGED <<nextId, classLock, objLock, pass, calls>>

\* a request POST /<resources>/<id>/public handled by SharablePerformPublic
SharablePerformPublic(c) ==
    /\ pc[c] = "created"
    /\ calls < MaxShareCalls
    /\ \E input \in PerformPublicProjectInputs, allow \in AllowScopes,
          fail \in Failures :
          LET r == PerformPublic(store, input, allow, fail)
          IN /\ store' = r.store
             /\ pass' = [pass EXCEPT ![c] =
                            ShareRequest("public", input, r.err, store)]
    /\ calls' = calls + 1
    /\ UNCHANGED <<nextId, classLock, objLock, pc>>

\* SharedResourceManager.CleanModelShares: no record of the model is left
CleanModelShares(st) == st \ SharedOf(st)

\* SharablePerformPrivate, lines 472-510: the error it returns and the rows
\* it leaves
PerformPrivate(st, allow, fail) ==
    LET m == ModelOf(st)
    IN IF ~m.is_public /\ m.public_scope = "none" THEN Ret("", st)
       ELSE IF Cardinality(m.requireIds) # 1 THEN Ret("ErrForbidden", st)
       ELSE IF HigherThan(m.public_scope, allow)
       THEN Ret("ErrNotSufficientPrivilege", st)
       ELSE IF fail = "CleanModelShares" THEN Ret("CleanModelShares", st)
       ELSE IF fail = "Update" THEN Ret("Update", CleanModelShares(st))
       ELSE Ret("", UpdateShare(CleanModelShares(st), "none"))

\* a request POST /<resources>/<id>/private handled by SharablePerformPrivate
SharablePerformPrivate(c) ==
    /\ pc[c] = "created"
    /\ calls < MaxShareCalls
    /\ \E allow \in AllowScopes, fail \in {"none", "CleanModelShares", "Update"} :
          LET r == PerformPrivate(store, allow, fail)
          IN /\ store' = r.store
             /\ pass' = [pass EXCEPT ![c] =
                            ShareRequest("private", NoInput, r.err, store)]
    /\ calls' = calls + 1
    /\ UNCHANGED <<nextId, classLock, objLock, pc>>

NextShare == \E c \in Callers :
    \/ SharableModelCustomizeCreate(c)
    \/ SharablePerformPublic(c)
    \/ SharablePerformPrivate(c)

SpecShare == InitShare /\ [][NextShare]_vars

BothLists(input) == input.shared_projects # {} /\ input.shared_domains # {}

\* C20 as stated: a request whose input sets both shared_projects and
\* shared_domains is rejected with an input-parameter error and changes
\* neither the model's is_public/public_scope nor a shared-resource record.
C20_BothListsInputParameterError ==
    [][\A c \in Callers :
        (calls' = calls + 1 /\ BothLists(pass'[c].input))
        => (pass'[c].err = "ErrInputParameter" /\ store' = store)]_vars

\* C20: a request whose input sets both shared_projects and shared_domains
\* is rejected and changes neither the model's is_public/public_scope nor a
\* shared-resource record; the error is the not-supported error when the
\* requested scope is lower than the scope of the resource, and the
\* input-parameter error otherwise.
C20_BothListsRejected ==
    [][\A c \in Callers :
        (calls' = calls + 1 /\ BothLists(pass'[c].input))
        => /\ store' = store
           /\ pass'[c].err =
                 IF HigherThan(ModelOf(store).resourceScope,
                               String2ScopeDefault(pass'[c].input.scope, "system"))
                 THEN "ErrNotSupported" ELSE "ErrInputParameter"]_vars

C20_Witness ==
    /\ calls = 2
    /\ BothLists(pass["api"].input)
    /\ pass["api"].err = "ErrInputParameter"
    /\ ModelOf(store).is_public
    /\ SharableGetSharedProjects(store, "domain") # {}

(* ====================================================================== *)
(* Security rules: cloudprovider.CompareRules as TestAliyunRuleSync calls *)
(* it.  Here store holds the rules of the provider's security group and   *)
(* pass the arguments and the results of the caller's comparison.         *)
(* ====================================================================== *)
MaxRules == 2

Directions == {"in", "out"}
Actions == {"allow", "deny"}
\* protocol, ports and peer of a rule; "any" covers every packet
Matches == {"any", "tcp 22"}

SecurityRule(dir, action, match, priority) ==
    [dir |-> dir, action |-> action, match |-> match, priority |-> priority]

\* a rule without its priority
RuleTuple(r) == [dir |-> r.dir, action |-> r.action, match |-> r.match]

RuleTuples == [dir : Directions, action : Actions, match : Matches]

\* the default rules of the driver: everything in is denied, everything out
\* is allowed
DefaultInRule == [dir |-> "in", action |-> "deny", match |-> "any"]
DefaultOutRule == [dir |-> "out", action |-> "allow", match |-> "any"]

DefaultRule(defaultIn, defaultOut, dir) ==
    IF dir = "in" THEN defaultIn ELSE defaultOut

\* the rule lists of the one TestData of TestAliyunRuleSync
AliyunLocalRules ==
    << SecurityRule("in", "allow", "tcp 1212", 52),
       SecurityRule("in", "allow", "tcp 22", 51),
       SecurityRule("in", "allow", "tcp 3389", 50),
       SecurityRule("in", "allow", "udp 1231", 49),
       SecurityRule("in", "deny", "tcp 443", 48) >>

AliyunRemoteRules ==
    { SecurityRule("in", "deny", "tcp 443", 1),
      SecurityRule("in", "allow", "udp 1231", 1),
      SecurityRule("in", "allow", "tcp 3389", 100),
      SecurityRule("in", "allow", "tcp 22", 100),
      SecurityRule("in", "allow", "tcp 1212", 100) }

\* local rule lists: no tuple twice, priorities falling along the list
LocalRuleLists ==
    {<<>>}
    \cup {<<SecurityRule(t.dir, t.action, t.match, 2)>> : t \in RuleTuples}
    \cup {<<SecurityRule(p[1].dir, p[1].action, p[1].match, 2),
            SecurityRule(p[2].dir, p[2].action, p[2].match, 1)>> :
             p \in {q \in RuleTuples \X RuleTuples : q[1] # q[2]}}

RemotePriorities == {1, 2}

RemoteRuleSets ==
    LET all == {SecurityRule(t.dir, t.action, t.match, n) :
                   t \in RuleTuples, n \in RemotePriorities}
    IN {rs \in SUBSET all : Cardinality(rs) <= MaxRules}

\* [minPriority, maxPriority] of the driver
PriorityBounds == {<<1, 1>>, <<1, 100>>}

\* includeIn, includeOut
IncludeFlags == {<<TRUE, TRUE>>, <<TRUE, FALSE>>, <<FALSE, TRUE>>}

\* what is done with a rule to add that finds no priority left in the range
Overflows == {"clamp", "beyond"}

(* ------------------------------ CompareRules --------------------------- *)
Included(a, dir) == IF dir = "in" THEN a.includeIn ELSE a.includeOut

\* the default rules are compared like any other rule
Effective_WithDefaults(a, r) == Included(a, r.dir)

\* normalisation keeps a rule of a requested direction that is not the
\* default rule of its direction
Effective(a, r) ==
    /\ Included(a, r.dir)
    /\ RuleTuple(r) # DefaultRule(a.defaultIn, a.defaultOut, r.dir)

\* a deny rule is kept although the provider cannot express it
EffectiveLocal_KeepDeny(a, r) == Effective(a, r)

\* with allowOnly a local deny rule is left out
EffectiveLocal(a, r) ==
    Effective(a, r) /\ (a.allowOnly => r.action = "allow")

\* a remote rule matches a local rule only if the priorities agree too
IsCommon_WithPriority(l, r) == l = r

\* matching: the same (direction, action, protocol, ports, peer), whatever
\* the priority
IsCommon(l, r) == RuleTuple(l) = RuleTuple(r)

\* the local rules of a direction that need a remote rule, in list order
LocalToAdd(a, remote, dir) ==
    LET Missing(l) == /\ l.dir = dir
                      /\ EffectiveLocal(a, l)
                      /\ ~\E r \in remote : Effective(a, r) /\ IsCommon(l, r)
    IN SelectSeq(a.local, Missing)

\* the remote rules of a direction that no local rule asks for
RemoteToDelete(a, remote, dir) ==
    {r \in remote :
        /\ r.dir = dir
        /\ Effective(a, r)
        /\ ~\E k \in DOMAIN a.local :
              EffectiveLocal(a, a.local[k]) /\ IsCommon(a.local[k], r)}

\* the priorities are counted from below minPriority
AssignPriority_OffByOne(a, k) == a.minPriority + k - 2

\* the priority of the k-th rule to add of a direction: upwards from
\* minPriority in the order of the local list
AssignPriority(a, k) ==
    LET n == a.minPriority + k - 1
    IN IF n <= a.maxPriority THEN n
       ELSE IF a.overflow = "clamp" THEN a.maxPriority
       ELSE n

Prioritized(a, rules) ==
    [k \in DOMAIN rules |-> [rules[k] EXCEPT !.priority = AssignPriority(a, k)]]

\* the lists CompareRules returns besides common
CompareRules(a, remote) ==
    [inAdds |-> Prioritized(a, LocalToAdd(a, remote, "in")),
     outAdds |-> Prioritized(a, LocalToAdd(a, remote, "out")),
     inDels |-> RemoteToDelete(a, remote, "in"),
     outDels |-> RemoteToDelete(a, remote, "out")]

NoResult == [inAdds |-> <<>>, outAdds |-> <<>>, inDels |-> {}, outDels |-> {}]

\* the arguments of a call and what is known of it afterwards
RuleCall(bounds, local, allowOnly, include, overflow) ==
    [minPriority |-> bounds[1], maxPriority |-> bounds[2],
     local |-> local,
     defaultIn |-> DefaultInRule, defaultOut |-> DefaultOutRule,
     allowOnly |-> allowOnly,
     includeIn |-> include[1], includeOut |-> include[2],
     overflow |-> overflow,
     remote |-> {}, result |-> NoResult, err |-> ""]

\* a provider without deny rules has none in its groups
Expressible(remote, allowOnly) ==
    allowOnly => \A r \in remote : r.action = "allow"

InitRules ==
    /\ \/ /\ store \in RemoteRuleSets
          /\ \E bounds \in PriorityBounds, local \in LocalRuleLists,
                allowOnly \in BOOLEAN, include \in IncludeFlags,
                overflow \in Overflows :
                /\ Expressible(store, allowOnly)
                /\ pass = [c \in {"sync"} |->
                              RuleCall(bounds, local, allowOnly, include, overflow)]
       \/ /\ store = AliyunRemoteRules
          /\ pass = [c \in {"sync"} |->
                        RuleCall(<<1, 100>>, AliyunLocalRules, FALSE,
                                 <<TRUE, TRUE>>, "clamp")]
    /\ nextId = 0
    /\ classLock = <<>>
    /\ objLock = <<>>
    /\ pc = [c \in {"sync"} |-> "start"]
    /\ calls = 0

\* common, inAdds, outAdds, inDels, outDels := cloudprovider.CompareRules(...)
CompareRulesCall(c) ==
    /\ pc[c] = "start"
    /\ pass' = [pass EXCEPT ![c].remote = store,
                            ![c].result = CompareRules(pass[c], store)]
    /\ pc' = [pc EXCEPT ![c] = "compared"]
    /\ calls' = calls + 1
    /\ UNCHANGED <<store, nextId, classLock, objLock>>

\* the driver deletes inDels/outDels and then creates inAdds/outAdds
ApplyRuleChanges(c) ==
    /\ pc[c] = "compared"
    /\ LET r == pass[c].result
       IN store' = (store \ (r.inDels \cup r.outDels))
                   \cup Range(r.inAdds) \cup Range(r.outAdds)
    /\ pc' = [pc EXCEPT ![c] = "applied"]
    /\ UNCHANGED <<nextId, classLock, objLock, pass, calls>>

NextRules == \E c \in {"sync"} :
    \/ CompareRulesCall(c)
    \/ ApplyRuleChanges(c)

SpecRules == InitRules /\ [][NextRules]_vars

(* ===================== properties of CompareRules ====================== *)
Args == pass["sync"]
Result == pass["sync"].result
RulesCompared == pc["sync"] \in {"compared", "applied"}

TuplesOf(rules) == {RuleTuple(r) : r \in rules}

NoChange(res) ==
    res.inAdds = <<>> /\ res.outAdds = <<>> /\ res.inDels = {} /\ res.outDels = {}

\* C14: when the local and the remote rules are the same (direction,
\* action, protocol, ports, peer) tuples and differ in their priorities
\* only, CompareRules returns empty inAdds, outAdds, inDels and outDels; so
\* it does for the rules of TestAliyunRuleSync.
C14_PriorityOnlyDifference ==
    RulesCompared =>
        (TuplesOf(Range(Args.local)) = TuplesOf(Args.remote) => NoChange(Result))

C14_Witness ==
    /\ RulesCompared
    /\ Args.local = AliyunLocalRules
    /\ Args.remote = AliyunRemoteRules
    /\ NoChange(Result)

\* C16: a remote rule that is the default rule of its direction is in
\* neither inDels nor outDels, and no default rule is in inAdds or outAdds.
C16_DefaultRuleImmunity ==
    RulesCompared =>
        /\ Args.defaultIn \notin TuplesOf(Result.inDels)
        /\ Args.defaultOut \notin TuplesOf(Result.outDels)
        /\ Args.defaultIn \notin TuplesOf(Range(Result.inAdds))
        /\ Args.defaultOut \notin TuplesOf(Range(Result.outAdds))

C16_Witness ==
    /\ RulesCompared
    /\ Args.includeIn /\ Args.includeOut
    /\ Args.defaultIn \in TuplesOf(Args.remote)
    /\ Args.defaultOut \in TuplesOf(Range(Args.local))
    /\ Result.inDels = {} /\ Result.outDels # {}
    /\ Result.inAdds # <<>>

Capacity(a) == a.maxPriority - a.minPriority + 1

InBounds(a, rules) ==
    \A k \in DOMAIN rules :
        a.minPriority <= rules[k].priority /\ rules[k].priority <= a.maxPriority

\* the scenario of the specification: one local rule, no remote rule
OneRuleScenario ==
    /\ Args.local = <<SecurityRule("in", "allow", "tcp 22", 2)>>
    /\ Args.remote = {}
    /\ Args.minPriority = 1 /\ Args.maxPriority = 100
    /\ Args.includeIn

OneRuleExpected ==
    [NoResult EXCEPT !.inAdds = <<SecurityRule("in", "allow", "tcp 22", 1)>>]

PacketMatches == {"tcp 22", "tcp 443", "tcp 1212", "tcp 3389", "udp 1231"}

Covers(match, packet) == match = "any" \/ match = packet

\* the local list decides by its first rule that covers the packet
LocalDecision(a, dir, packet) ==
    LET hits == {k \in DOMAIN a.local :
                    a.local[k].dir = dir /\ Covers(a.local[k].match, packet)}
    IN IF hits = {}
       THEN DefaultRule(a.defaultIn, a.defaultOut, dir).action
       ELSE a.local[CHOOSE k \in hits : \A j \in hits : k <= j].action

\* the provider decides by the covering rule of the smallest priority
\* number, a deny rule first among equals
RemoteDecision(a, rules, dir, packet) ==
    LET hits == {r \in rules : r.dir = dir /\ Covers(r.match, packet)}
        first == {r \in hits : \A q \in hits : r.priority <= q.priority}
    IN IF hits = {}
       THEN DefaultRule(a.defaultIn, a.defaultOut, dir).action
       ELSE IF \E r \in first : r.action = "deny" THEN "deny" ELSE "allow"

NonDefault(a, r) == RuleTuple(r) # DefaultRule(a.defaultIn, a.defaultOut, r.dir)

Added(res) == Range(res.inAdds) \cup Range(res.outAdds)
Deleted(res) == res.inDels \cup res.outDels

\* C19 as stated: with no local rule every non-default remote rule is in
\* inDels or outDels and nothing is added; with no remote rule every
\* non-default local rule is in inAdds or outAdds and nothing is deleted.
C19_EdgeCases ==
    RulesCompared =>
        /\ (Args.local = <<>> /\ Args.remote # {}) =>
              /\ \A r \in Args.remote : NonDefault(Args, r) => r \in Deleted(Result)
              /\ Added(Result) = {}
        /\ (Args.remote = {} /\ Args.local # <<>>) =>
              /\ \A k \in DOMAIN Args.local :
                    NonDefault(Args, Args.local[k])
                    => RuleTuple(Args.local[k]) \in TuplesOf(Added(Result))
              /\ Deleted(Result) = {}

\* C19: with no local rule the rules of inDels and outDels are the
\* non-default remote rules of the compared directions and nothing is
\* added; with no remote rule the rules of inAdds and outAdds are the
\* non-default local rules of the compared directions, without the deny
\* rules when allowOnly, and nothing is deleted.
C19_EdgeCasesOfComparedDirections ==
    RulesCompared =>
        /\ (Args.local = <<>> /\ Args.remote # {}) =>
              /\ Deleted(Result) = {r \in Args.remote :
                                       Included(Args, r.dir) /\ NonDefault(Args, r)}
              /\ TuplesOf(Result.inDels) \subseteq {t \in RuleTuples : t.dir = "in"}
              /\ TuplesOf(Result.outDels) \subseteq {t \in RuleTuples : t.dir = "out"}
              /\ Added(Result) = {}
        /\ (Args.remote = {} /\ Args.local # <<>>) =>
              /\ TuplesOf(Added(Result))
                 = TuplesOf({l \in Range(Args.local) :
                               /\ Included(Args, l.dir) /\ NonDefault(Args, l)
                               /\ Args.allowOnly => l.action = "allow"})
              /\ \A k \in DOMAIN Result.inAdds : Result.inAdds[k].dir = "in"
              /\ \A k \in DOMAIN Result.outAdds : Result.outAdds[k].dir = "out"
              /\ Deleted(Result) = {}

C19_Witness ==
    /\ RulesCompared
    /\ Args.remote = {}
    /\ Len(Args.local) = 2
    /\ Args.allowOnly /\ ~Args.includeOut
    /\ Args.local[1].action = "deny" /\ Args.local[1].dir = "in"
    /\ Args.local[1].match = "tcp 22"
    /\ Args.local[2].action = "allow" /\ Args.local[2].dir = "in"
    /\ Len(Result.inAdds) = 1

(* ====================================================================== *)
(* Route tables: names, routes (loadbalancerclusterresource.go 261-590)   *)
(* ====================================================================== *)
\* C21: once no sync pass is running, no two local route tables have the
\* same name and no route table has an empty name.
C21_UniqueNames ==
    (\A p \in Procs : pc[p] \in {"idle", "done"}) =>
        /\ \A r1, r2 \in store : r1.id # r2.id => r1.name # r2.name
        /\ \A r \in store : r.name # ""

(* ------------------- the routes of one route table --------------------- *)
\* Here store holds the row of one route table and pass the last request
\* of the caller: add-routes or del-routes, its input and its error.
MaxRouteCalls == 2

RouteTypes == {"system", "custom"}
Cidrs == {"10.0.0.0/24", "10.0.0.3/24", "10.0.0.1", "bad"}

SRoute(type, cidr) == [type |-> type, cidr |-> cidr]

\* net.ParseCIDR / net.ParseIP accept the address
ValidAddr(cidr) == cidr # "bad"

\* ipNet.String(): 192.168.1.3/24 becomes 192.168.1.0/24; an address without
\* a prefix length is kept
NormalizedCidr(cidr) ==
    IF cidr = "10.0.0.3/24" THEN "10.0.0.0/24" ELSE cidr

\* SRoutes.Validate, lines 297-316: the routes with their normalised
\* addresses, or the first error
RECURSIVE ValidateFrom(_, _, _)
ValidateFrom(routes, k, found) ==
    IF k > Len(routes) THEN [err |-> "", routes |-> routes]
    ELSE IF ~ValidAddr(routes[k].cidr)
    THEN [err |-> "invalid addr", routes |-> routes]
    ELSE LET cidr == NormalizedCidr(routes[k].cidr)
         IN IF cidr \in found
            THEN [err |-> "duplicate route cidr", routes |-> routes]
            ELSE ValidateFrom([routes EXCEPT ![k].cidr = cidr], k + 1,
                              found \cup {cidr})

Validate(routes) == ValidateFrom(routes, 1, {})

\* an added route is appended whatever the table holds
AddOne_Always(routes, add) == Append(routes, add)

\* lines 532-543: an added route is appended unless its cidr is in the table
AddOne(routes, add) ==
    IF \E k \in DOMAIN routes : routes[k].cidr = add.cidr
    THEN routes ELSE Append(routes, add)

RECURSIVE AddAll(_, _)
AddAll(routes, adds) ==
    IF adds = <<>> THEN routes
    ELSE AddAll(AddOne(routes, Head(adds)), Tail(adds))

RemoveAt(routes, i) ==
    [k \in 1..(Len(routes) - 1) |-> IF k < i THEN routes[k] ELSE routes[k + 1]]

\* the last route of the cidr is removed, a system route too
DelOne_AnyType(routes, cidr) ==
    LET hits == {k \in DOMAIN routes : routes[k].cidr = cidr}
    IN IF hits = {} THEN routes
       ELSE RemoveAt(routes, CHOOSE k \in hits : \A j \in hits : j <= k)

\* lines 568-578: the last route of the cidr that is not a system route is
\* removed
DelOne(routes, cidr) ==
    LET hits == {k \in DOMAIN routes :
                    routes[k].type # "system" /\ routes[k].cidr = cidr}
    IN IF hits = {} THEN routes
       ELSE RemoveAt(routes, CHOOSE k \in hits : \A j \in hits : j <= k)

RECURSIVE DelAll(_, _)
DelAll(routes, cidrs) ==
    IF cidrs = <<>> THEN routes
    ELSE DelAll(DelOne(routes, Head(cidrs)), Tail(cidrs))

Lists(S) == {<<>>} \cup {<<a>> : a \in S} \cup {<<a, b>> : a \in S, b \in S}

\* the routes of a table synchronised from the cloud or set by a user
StoredRoutes == {SRoute(t, c) : t \in RouteTypes, c \in Cidrs \ {"bad"}}
\* the "routes" of an add-routes request
AddInputs == Lists({SRoute(t, c) : t \in RouteTypes, c \in Cidrs})
\* the "cidrs" of a del-routes request
DelInputs == Lists(Cidrs \ {"bad"})

RouteTableRow(routes) == [kind |-> "route_table", id |-> 1, routes |-> routes]
RoutesOf(st) == (CHOOSE r \in st : r.kind = "route_table").routes

NoRequest == [op |-> "", input |-> <<>>, err |-> "", before |-> <<>>]

InitRoutes ==
    /\ store \in {{RouteTableRow(rs)} : rs \in Lists(StoredRoutes)}
    /\ nextId = 0
    /\ classLock = <<>>
    /\ objLock = <<>>
    /\ pc = [c \in Callers |-> "idle"]
    /\ pass = [c \in Callers |-> NoRequest]
    /\ calls = 0

Requested(c, op, input, err, routes) ==
    /\ store' = {RouteTableRow(routes)}
    /\ pass' = [pass EXCEPT ![c] = [op |-> op, input |-> input, err |-> err,
                                    before |-> RoutesOf(store)]]
    /\ calls' = calls + 1
    /\ UNCHANGED <<nextId, classLock, objLock, pc>>

\* PerformAddRoutes, lines 520-555
PerformAddRoutes(c) ==
    /\ calls < MaxRouteCalls
    /\ \E adds \in AddInputs, updateFails \in BOOLEAN :
          LET v == Validate(adds)
          IN IF v.err # ""
             THEN Requested(c, "add-routes", adds, v.err, RoutesOf(store))
             ELSE IF updateFails
             THEN Requested(c, "add-routes", adds, "Update", RoutesOf(store))
             ELSE Requested(c, "add-routes", adds, "",
                            AddAll(RoutesOf(store), v.routes))

\* PerformDelRoutes, lines 557-590
PerformDelRoutes(c) ==
    /\ calls < MaxRouteCalls
    /\ \E cidrs \in DelInputs, outcome \in {"ok", "unmarshal", "Update"} :
          IF outcome = "ok"
          THEN Requested(c, "del-routes", cidrs, "",
                         DelAll(RoutesOf(store), cidrs))
          ELSE Requested(c, "del-routes", cidrs, outcome, RoutesOf(store))

NextRoutes == \E c \in Callers :
    \/ PerformAddRoutes(c)
    \/ PerformDelRoutes(c)

SpecRoutes == InitRoutes /\ [][NextRoutes]_vars

(* ----------------------- properties of the routes ---------------------- *)
Request == pass["api"]

DistinctCidrs(routes) ==
    \A i, j \in DOMAIN routes : i # j => routes[i].cidr # routes[j].cidr

IsPrefix(a, b) == Len(a) <= Len(b) /\ \A k \in DOMAIN a : a[k] = b[k]

\* C22: a request on a table whose routes have pairwise distinct cidrs
\* leaves a table whose routes have pairwise distinct cidrs; add-routes
\* leaves the routes of the table as they were and in their places and only
\* appends routes of new cidrs; a request that repeats a cidr is rejected
\* with an input error and changes nothing.
C22_CidrUniqueness ==
    Request.op # "" =>
        /\ DistinctCidrs(Request.before) => DistinctCidrs(RoutesOf(store))
        /\ Request.op = "add-routes" =>
              /\ IsPrefix(Request.before, RoutesOf(store))
              /\ \A k \in (Len(Request.before) + 1)..Len(RoutesOf(store)) :
                    ~\E j \in DOMAIN Request.before :
                          Request.before[j].cidr = RoutesOf(store)[k].cidr
              /\ ~DistinctCidrs(Request.input) =>
                    /\ Request.err \in {"invalid addr", "duplicate route cidr"}
                    /\ RoutesOf(store) = Request.before

C22_Witness ==
    /\ Request.op = "add-routes" /\ Request.err = ""
    /\ Len(Request.input) = 2
    /\ Request.input[1].cidr = "10.0.0.3/24"
    /\ Request.input[2].cidr = "10.0.0.1"
    /\ \E k \in DOMAIN Request.before : Request.before[k].cidr = "10.0.0.0/24"
    /\ DistinctCidrs(Request.before)
    /\ Len(RoutesOf(store)) = Len(Request.before) + 1

RECURSIVE IsSubseq(_, _)
IsSubseq(a, b) ==
    IF a = <<>> THEN TRUE
    ELSE IF b = <<>> THEN FALSE
    ELSE IF Head(a) = Head(b) THEN IsSubseq(Tail(a), Tail(b))
    ELSE IsSubseq(a, Tail(b))

IsSystem(r) == r.type = "system"

CountCustom(routes, cidr) ==
    Cardinality({k \in DOMAIN routes :
                    ~IsSystem(routes[k]) /\ routes[k].cidr = cidr})

Occurrences(cidrs, cidr) == Cardinality({k \in DOMAIN cidrs : cidrs[k] = cidr})

\* C23: after del-routes the system routes of the table are all there, in
\* their order; the routes left are routes of the table in their former
\* order; of a cidr no more non-system routes are gone than the list names
\* it, and a cidr the list does not name has lost none.
C23_SystemRoutesKept ==
    Request.op = "del-routes" =>
        LET before == Request.before
            after == RoutesOf(store)
        IN /\ SelectSeq(after, IsSystem) = SelectSeq(before, IsSystem)
           /\ IsSubseq(after, before)
           /\ \A c \in Cidrs :
                 /\ CountCustom(after, c) <= CountCustom(before, c)
                 /\ CountCustom(before, c) - CountCustom(after, c)
                    <= Occurrences(Request.input, c)
           /\ Request.err # "" => after = before

C23_Witness ==
    /\ Request.op = "del-routes" /\ Request.err = ""
    /\ Request.before = <<SRoute("custom", "10.0.0.1"), SRoute("system", "10.0.0.1")>>
    /\ Request.input = <<"10.0.0.1", "10.0.0.1">>
    /\ RoutesOf(store) = <<SRoute("system", "10.0.0.1")>>

\* ---------------------------------------------------------------------
\* Claims about the share state of a model (specification SpecShare)

\* the model once SharableModelCustomizeCreate has returned
Created == pc["api"] = "created"

\* the request that was handled last
LastShare == pass["api"]

\* C24: once the model is created, and after every call of
\* SharablePerformPublic and SharablePerformPrivate, is_public is true
\* exactly when public_scope is not "none"
C24_ShareStateInvariant ==
    Created =>
        (ModelOf(store).is_public <=> ModelOf(store).public_scope # "none")

\* SetShare has acted three times: on creation, to share and to unshare
C24_Witness ==
    /\ Created
    /\ LastShare.op = "private" /\ LastShare.err = ""
    /\ ModelOf(LastShare.before).is_public
    /\ ModelOf(LastShare.before).public_scope = "domain"
    /\ ~ModelOf(store).is_public
    /\ ModelOf(store).public_scope = "none"

\* C25: a domain-level resource is never stored with public_scope "project"
C25_NoScopeBelowResourceScope ==
    Created =>
        ~(/\ ModelOf(store).resourceScope = "domain"
          /\ ModelOf(store).public_scope = "project")

\* C26: a call of SharablePerformPublic that returns an error leaves the
\* model and its shared-resource records as it found them
C26_AllOrNothing ==
    (LastShare.op = "public" /\ LastShare.err # "") =>
        store = LastShare.before

\* C27: after SharablePerformPrivate returns nil the model is private and no
\* shared-resource record is left; on a model that is private already it
\* changes nothing
C27_PrivateAfterNil ==
    (LastShare.op = "private" /\ LastShare.err = "") =>
        /\ ~ModelOf(store).is_public
        /\ ModelOf(store).public_scope = "none"
        /\ SharedOf(store) = {}
        /\ (/\ ~ModelOf(LastShare.before).is_public
            /\ ModelOf(LastShare.before).public_scope = "none")
              => store = LastShare.before


\* ---------------------------------------------------------------------
\* Suggest rules and their cron jobs
\* (pkg/monitor/models/suggestsysrule.go, suggestsysdrivers/driverconfig.go)
\*
\* store holds the rows of suggestsysrule_tbl, pass the jobs of the cron
\* job manager and the outcome of the last hook, pc the state of the service.

MaxCronCalls == 3

\* the keys of suggestSysRuleDrivers, filled by RegisterSuggestSysRuleDrivers
SuggestSysRuleDrivers == {"EIP_UN_USED", "DISK_UN_USED"}

RuleNames == {"EIP_UN_USED", "rule1"}

Periods == {"30s", "1m"}

\* DSuggestSysRuleConfig, lines 62-70
DSuggestSysRuleConfig(name, type, enabled, period) ==
    [Name |-> name, Type |-> type, Enabled |-> enabled, Period |-> period]

RuleConfigs ==
    {DSuggestSysRuleConfig(n, t, e, d) :
        n \in RuleNames, t \in SuggestSysRuleDrivers, e \in BOOLEAN, d \in Periods}

CronJob(name, dur, driver) == [name |-> name, dur |-> dur, driver |-> driver]

\* cronman.SCronJobManager.Remove: the jobs of that name are dropped
Remove(jobs, name) == SelectSeq(jobs, LAMBDA j : j.name # name)

\* cronman.SCronJobManager.AddJobAtIntervalsWithStartRun: one more job
AddJobAtIntervalsWithStartRun(jobs, name, dur, driver) ==
    Append(jobs, CronJob(name, dur, driver))

\* an enumeration of a set of drivers, as range over the map gives one
RECURSIVE SeqOfDrivers(_)
SeqOfDrivers(S) ==
    IF S = {} THEN <<>>
    ELSE LET d == CHOOSE x \in S : TRUE
         IN <<d>> \o SeqOfDrivers(S \ {d})

\* InitSuggestSysRuleCronjob, lines 19-43, on the rows objs
InitJobs(jobs, objs) ==
    IF objs = {}
    THEN jobs \o [i \in 1..Cardinality(SuggestSysRuleDrivers) |->
                    CronJob(SeqOfDrivers(SuggestSysRuleDrivers)[i], "30s",
                            SeqOfDrivers(SuggestSysRuleDrivers)[i])]
    ELSE LET r == CHOOSE x \in objs : TRUE
         IN IF r.Enabled
            THEN AddJobAtIntervalsWithStartRun(jobs, r.Type, r.Period, r.Type)
            ELSE jobs

\* PostCreate, lines 203-211: the jobs it leaves
PostCreateJobs(jobs, self) ==
    IF self.Enabled
    THEN AddJobAtIntervalsWithStartRun(Remove(jobs, self.Name), self.Name,
                                       self.Period, self.Type)
    ELSE Remove(jobs, self.Name)

\* PostUpdate, lines 214-223: the jobs it leaves and whether it panicked;
\* suggestSysRuleDrivers[self.Name] is nil when no driver has that key, and
\* taking the method of a nil interface value panics
PostUpdateJobs(jobs, self) ==
    IF ~self.Enabled
    THEN [jobs |-> Remove(jobs, self.Name), err |-> ""]
    ELSE IF self.Name \notin SuggestSysRuleDrivers
    THEN [jobs |-> Remove(jobs, self.Name), err |-> "panic"]
    ELSE [jobs |-> AddJobAtIntervalsWithStartRun(Remove(jobs, self.Name),
                       self.Name, self.Period, self.Name),
          err |-> ""]

CronState(jobs, op, err) == [jobs |-> jobs, op |-> op, err |-> err]

\* the service is starting: the table is empty or holds a rule of an
\* earlier run, and the cron job manager has no job
InitCron ==
    /\ store \in {{}} \cup {{r} : r \in RuleConfigs}
    /\ nextId = 0
    /\ classLock = <<>>
    /\ objLock = <<>>
    /\ pc = "boot"
    /\ pass = CronState(<<>>, "", "")
    /\ calls = 0

\* the service start calls InitSuggestSysRuleCronjob once
InitSuggestSysRuleCronjob ==
    /\ pc = "boot"
    /\ pc' = "running"
    /\ pass' = CronState(InitJobs(pass.jobs, store), "init", "")
    /\ UNCHANGED <<store, nextId, classLock, objLock, calls>>

\* a rule is created and PostCreate runs on it
PostCreate ==
    /\ pc = "running"
    /\ calls < MaxCronCalls
    /\ store = {}
    /\ \E self \in RuleConfigs :
          /\ store' = {self}
          /\ pass' = CronState(PostCreateJobs(pass.jobs, self), "create", "")
    /\ calls' = calls + 1
    /\ UNCHANGED <<nextId, classLock, objLock, pc>>

\* the rule is updated (enabled, period) and PostUpdate runs on it
PostUpdate ==
    /\ pc = "running"
    /\ calls < MaxCronCalls
    /\ \E old \in store, e \in BOOLEAN, d \in Periods :
          LET self == [old EXCEPT !.Enabled = e, !.Period = d]
              r == PostUpdateJobs(pass.jobs, self)
          IN /\ store' = {self}
             /\ pass' = CronState(r.jobs, "update", r.err)
    /\ calls' = calls + 1
    /\ UNCHANGED <<nextId, classLock, objLock, pc>>

NextCron ==
    \/ InitSuggestSysRuleCronjob
    \/ PostCreate
    \/ PostUpdate

SpecCron == InitCron /\ [][NextCron]_vars

\* the jobs of the cron job manager, as a sequence
CronJobs == pass.jobs

\* C28: once the service has started, the one rule of the table has exactly
\* one cron job, running the driver of its Type, when it is enabled and the
\* cron job manager has no job when it is disabled
C28_CronJobConsistency ==
    (pc = "running" /\ pass.op \in {"init", "create", "update"}) =>
        \A r \in store :
            IF r.Enabled
            THEN /\ Len(CronJobs) = 1
                 /\ CronJobs[1].driver = r.Type
            ELSE Len(CronJobs) = 0


\* ---------------------------------------------------------------------
\* The asynchronous measurement filter
\* (pkg/monitor/models/datasource.go, getFilterMeasurementsAsyn)
\*
\* store is queryChan.queryRtnChan, pc the position of every goroutine,
\* calls the loop counter of the collector, pass the rest of the call.

MaxMeasurements == 3

\* the query goroutines, one per measurement
Queries == 1..MaxMeasurements

\* the name of the i-th measurement
MeasurementName(i) == <<"cpu", "mem", "disk", "net">>[i]

\* what db.Query gives: a series, no series, or an error
QueryOutcomes == {"series", "empty", "error"}

\* the first error is the one errgroup keeps
GroupError(old, e) == IF old = "" THEN e ELSE old

\* lines 326-328: a result with an empty Measurement is kept too
Collected_KeepEmpty(list, m) == Append(list, m)

\* lines 326-328: a result is kept when its Measurement is not empty
Collected(list, m) == IF Len(m) # 0 THEN Append(list, m) ELSE list

\* lines 308-322: the channel is made with room for count results, the
\* context has its timeout and every goroutine is started
InitQuery ==
    /\ store = <<>>
    /\ nextId = 0
    /\ classLock = <<>>
    /\ objLock = <<>>
    /\ calls = 0
    /\ \E n \in 0..MaxMeasurements :
          /\ pc = [main |-> "wait",
                   collector |-> "select",
                   query |-> [g \in Queries |->
                                 IF g <= n THEN "query" ELSE "none"]]
          /\ pass = [count |-> n,
                     capacity |-> n,
                     ctxDone |-> FALSE,
                     outcome |-> [g \in Queries |-> ""],
                     rtnMeasurement |-> [g \in Queries |-> ""],
                     filterMeasurements |-> <<>>,
                     groupErr |-> "",
                     ret |-> <<>>]

\* getFilterMeasurement, lines 341-353: the query returns
Query(g) ==
    /\ pc.query[g] = "query"
    /\ \E o \in QueryOutcomes :
          /\ pass' = [pass EXCEPT
                        !.outcome[g] = o,
                        !.rtnMeasurement[g] =
                            IF o = "series" THEN MeasurementName(g) ELSE "",
                        !.groupErr = IF o = "error"
                                     THEN GroupError(@, "getFilterMeasurement error")
                                     ELSE @]
          /\ pc' = [pc EXCEPT !.query[g] = IF o = "error" THEN "failed" ELSE "send"]
    /\ UNCHANGED <<store, nextId, classLock, objLock, calls>>

\* getFilterMeasurement, lines 354-355: the send, possible while the channel
\* has room
Send(g) ==
    /\ pc.query[g] = "send"
    /\ Len(store) < pass.capacity
    /\ store' = Append(store, pass.rtnMeasurement[g])
    /\ pc' = [pc EXCEPT !.query[g] = "sent"]
    /\ UNCHANGED <<nextId, classLock, objLock, pass, calls>>

\* the timer of context.WithTimeout fires
Timeout ==
    /\ ~pass.ctxDone
    /\ pc.main = "wait"
    /\ pass' = [pass EXCEPT !.ctxDone = TRUE]
    /\ UNCHANGED <<store, nextId, classLock, objLock, pc, calls>>

\* lines 323-328: the collector receives one result
Receive ==
    /\ pc.collector = "select"
    /\ calls < pass.count
    /\ Len(store) > 0
    /\ store' = Tail(store)
    /\ pass' = [pass EXCEPT !.filterMeasurements = Collected(@, Head(store))]
    /\ calls' = calls + 1
    /\ UNCHANGED <<nextId, classLock, objLock, pc>>

\* lines 329-330: the collector finds the context done
CtxDone ==
    /\ pc.collector = "select"
    /\ calls < pass.count
    /\ pass.ctxDone
    /\ pass' = [pass EXCEPT !.groupErr = GroupError(@, "filter measurement time out")]
    /\ pc' = [pc EXCEPT !.collector = "timeout"]
    /\ UNCHANGED <<store, nextId, classLock, objLock, calls>>

\* lines 323, 333: the loop of the collector ends
CollectorReturn ==
    /\ pc.collector = "select"
    /\ calls >= pass.count
    /\ pc' = [pc EXCEPT !.collector = "done"]
    /\ UNCHANGED <<store, nextId, classLock, objLock, pass, calls>>

\* a goroutine that has returned
GoroutineDone(st) == st \in {"none", "sent", "failed", "done", "timeout"}

\* lines 335-336: Wait returns when every goroutine of the group has, and
\* the deferred cancel runs
Wait ==
    /\ pc.main = "wait"
    /\ /\ GoroutineDone(pc.collector)
       /\ \A g \in Queries : GoroutineDone(pc.query[g])
    /\ pass' = [pass EXCEPT !.ret = <<pass.filterMeasurements, pass.groupErr>>,
                            !.ctxDone = TRUE]
    /\ pc' = [pc EXCEPT !.main = "returned"]
    /\ UNCHANGED <<store, nextId, classLock, objLock, calls>>

NextQuery ==
    \/ \E g \in Queries : Query(g) \/ Send(g)
    \/ Timeout
    \/ Receive
    \/ CtxDone
    \/ CollectorReturn
    \/ Wait

SpecQuery == InitQuery /\ [][NextQuery]_vars

\* every goroutine is scheduled, every query returns and the timer fires
SpecQueryFair ==
    /\ SpecQuery
    /\ \A g \in Queries : WF_vars(Query(g)) /\ WF_vars(Send(g))
    /\ WF_vars(Timeout)
    /\ WF_vars(Receive)
    /\ WF_vars(CtxDone)
    /\ WF_vars(CollectorReturn)
    /\ WF_vars(Wait)

\* the call has returned
Returned == pc.main = "returned"

\* the queries of the call
Started == 1..pass.count

AllSucceeded == \A g \in Started : pass.outcome[g] \in {"series", "empty"}

\* the names of the measurements whose query gave a series
NonEmptySeries == {MeasurementName(g) : g \in {h \in Started : pass.outcome[h] = "series"}}

\* a send never waits, the collector stops on count results or on the done
\* context, no goroutine is left when the call returns, and a failed query
\* gives an error
QuerySafety ==
    /\ \A g \in Queries : pc.query[g] = "send" => Len(store) < pass.capacity
    /\ pc.collector = "done" => calls = pass.count
    /\ pc.collector = "timeout" => pass.ctxDone /\ calls < pass.count
    /\ Returned => (/\ GoroutineDone(pc.collector)
                    /\ \A g \in Queries : GoroutineDone(pc.query[g]))
    /\ (Returned /\ ~AllSucceeded) => pass.ret[2] # ""

\* the call returns nil and exactly the measurements that have a series
ExactResult ==
    /\ pass.ret[2] = ""
    /\ Range(pass.ret[1]) = NonEmptySeries
    /\ Len(pass.ret[1]) = Cardinality(NonEmptySeries)

\* C29 as stated: the call terminates with no goroutine left, no send
\* waits, and when every query succeeds it returns exactly the measurements
\* with a non-empty series
C29_TerminatesExactWhenAllSucceed ==
    /\ [](QuerySafety /\ ((Returned /\ AllSucceeded) => ExactResult))
    /\ <>Returned

\* C29, amended: the same, the exact result being returned when every query
\* succeeds and the collector has received every result before the context
\* is done; when the collector finds the context done the call returns an
\* error
C29_TerminatesExactUnlessTimeout ==
    /\ [](/\ QuerySafety
          /\ (Returned /\ AllSucceeded /\ pc.collector = "done") => ExactResult
          /\ (Returned /\ pc.collector = "timeout") => pass.ret[2] # "")
    /\ <>Returned

\* every query succeeded, some with a series and some without, and the call
\* returned
C29_Witness ==
    /\ Returned
    /\ pass.count = MaxMeasurements
    /\ AllSucceeded
    /\ pc.collector = "done"
    /\ \E g \in Started : pass.outcome[g] = "series"
    /\ \E g \in Started : pass.outcome[g] = "empty"
    /\ pass.ret[2] = ""

====
